---- MODULE Spec2Model ----
(***************************************************************************)
(* Auth blocking triggers of a functions deployment:                       *)
(*   src/deploy/functions/services/authBlocking.ts                         *)
(*                                                                         *)
(* The deployment plan (wantBackend) holds endpoints and the merged        *)
(* identity platform options; the remote blocking functions config is one  *)
(* shared object that register/unregister read and write back whole.       *)
(*                                                                         *)
(* An optional value (a `?` field, a value that may be undefined) is the   *)
(* empty set when it is missing and the singleton of its value otherwise.  *)
(***************************************************************************)
EXTENDS Naturals, Sequences, FiniteSets

----------------------------------------------------------------------------
(* Bounds of the model *)

\* number of endpoints of the deployment plan
NumEndpoints == 2

----------------------------------------------------------------------------
(* Optional values *)

None == {}

Some(x) == {x}

Get(o) == CHOOSE x \in o : TRUE

\* `o || false` for an optional boolean o
OrFalse(o) == o # None /\ Get(o)

\* Boolean.prototype.toString
ToString(b) == IF b THEN "true" ELSE "false"

----------------------------------------------------------------------------
(* Event types: the constants of events.v1 and events.v2, each standing for
   its own distinct string *)

v1_BEFORE_CREATE_EVENT == "events.v1.BEFORE_CREATE_EVENT"

v1_BEFORE_SIGN_IN_EVENT == "events.v1.BEFORE_SIGN_IN_EVENT"

v2_BEFORE_CREATE_EVENT == "events.v2.BEFORE_CREATE_EVENT"

v2_BEFORE_SIGN_IN_EVENT == "events.v2.BEFORE_SIGN_IN_EVENT"

\* an event type of neither family
UNRECOGNIZED_EVENT == "an event type of neither family"

AuthBlockingEvents ==
  { v1_BEFORE_CREATE_EVENT, v2_BEFORE_CREATE_EVENT,
    v1_BEFORE_SIGN_IN_EVENT, v2_BEFORE_SIGN_IN_EVENT }

EventTypes == AuthBlockingEvents \cup { UNRECOGNIZED_EVENT }

\* IsBeforeCreate without the v2 name
IsBeforeCreate_V1Only(eventType) == eventType = v1_BEFORE_CREATE_EVENT

\* the condition of the first branch of register and unregister
IsBeforeCreate(eventType) ==
  eventType = v1_BEFORE_CREATE_EVENT \/ eventType = v2_BEFORE_CREATE_EVENT

\* the condition of the second branch of register and unregister
IsBeforeSignIn(eventType) ==
  eventType = v1_BEFORE_SIGN_IN_EVENT \/ eventType = v2_BEFORE_SIGN_IN_EVENT

----------------------------------------------------------------------------
(* Endpoints *)

Ids == { "fnA", "fnB" }

FunctionUris == << "https://a", "https://b", "https://c", "https://d" >>

\* the URI of the function deployed for the i-th endpoint of the plan
UriOf(i) == Some(FunctionUris[((i - 1) % Len(FunctionUris)) + 1])

\* the token options an endpoint may request: every flag takes every one of
\* its three values, and the flags of one endpoint differ from each other
RequestedOptions ==
  { [accessToken |-> Some(TRUE),  idToken |-> Some(FALSE), refreshToken |-> None],
    [accessToken |-> Some(FALSE), idToken |-> None,        refreshToken |-> Some(TRUE)],
    [accessToken |-> None,        idToken |-> Some(TRUE),  refreshToken |-> Some(FALSE)] }

\* backend.Endpoint & backend.BlockingTriggered, flattened: blocking says
\* that the endpoint has a blockingTrigger, whose fields follow
BlockingEndpoint(id, uri, eventType, opts) ==
  [ id |-> id, uri |-> uri, blocking |-> TRUE, eventType |-> eventType,
    accessToken |-> opts.accessToken, idToken |-> opts.idToken,
    refreshToken |-> opts.refreshToken ]

\* an endpoint with another kind of trigger
OtherEndpoint(id, uri) ==
  [ id |-> id, uri |-> uri, blocking |-> FALSE, eventType |-> "",
    accessToken |-> None, idToken |-> None, refreshToken |-> None ]

isBlockingTriggered(ep) == ep.blocking

----------------------------------------------------------------------------
(* State *)

VARIABLES
  plan,          \* wantBackend: its endpoints, in the order of allEndpoints
  merged,        \* wantBackend.resourceOptions.identityPlatform (optional)
  ensured,       \* endpoints for which ensureAuthBlockingTriggerIsValid returned
  copiedEarly,   \* endpoints copied to while some blocking endpoint was not ensured
  copied,        \* endpoints copied to after every blocking endpoint was ensured
  result,        \* how the last call ended: "ok" or the error it threw
  remote,        \* the blocking functions config held by identity platform
  call,          \* the last register/unregister call: operation and arguments
  before,        \* the config getBlockingFunctionsConfig returned to that call
  wrote,         \* whether that call reached setBlockingFunctionsConfig
  roundTrip,     \* set by an unregister call that follows a successful register
                 \* call of the same endpoint: the other slot as that register
                 \* call read it
  inflight,      \* two calls running concurrently: for each its arguments, its
                 \* position, the blockingConfig it holds, and its calls of
                 \* getBlockingFunctionsConfig and setBlockingFunctionsConfig
  initial,       \* the remote config when the two concurrent calls started
  overlap        \* whether one call read while the other was between its
                 \* read and its write

planVars == << plan, merged, ensured, copiedEarly, copied >>

remoteVars == << remote, call, before, wrote, roundTrip >>

raceVars == << inflight, initial, overlap >>

vars == << planVars, result, remoteVars, raceVars >>

Indices == 1..NumEndpoints

\* backend.allEndpoints(wantBackend).filter(isBlockingTriggered), as indices
blockingEndpoints(p) == { j \in DOMAIN p : isBlockingTriggered(p[j]) }

\* HasDuplicate comparing the families of the event types
HasDuplicate_ByFamily(endpoint, p) ==
  \E j \in blockingEndpoints(p) :
    /\ IsBeforeCreate(p[j].eventType) = IsBeforeCreate(endpoint.eventType)
    /\ IsBeforeSignIn(p[j].eventType) = IsBeforeSignIn(endpoint.eventType)
    /\ p[j].id # endpoint.id

\* HasDuplicate without the comparison of the ids
HasDuplicate_AnyId(endpoint, p) ==
  \E j \in blockingEndpoints(p) : p[j].eventType = endpoint.eventType

\* the predicate of blockingEndpoints.find(...): another blocking endpoint of
\* the same event type
HasDuplicate(endpoint, p) ==
  \E j \in blockingEndpoints(p) :
    p[j].eventType = endpoint.eventType /\ p[j].id # endpoint.id

AllFalse == [accessToken |-> FALSE, idToken |-> FALSE, refreshToken |-> FALSE]

\* CombineOptions assigning with = where the code assigns with ||=
CombineOptions_Assign(idp, endpoint) ==
  Some([ accessToken  |-> OrFalse(endpoint.accessToken),
         idToken      |-> OrFalse(endpoint.idToken),
         refreshToken |-> OrFalse(endpoint.refreshToken) ])

\* the merged options after the endpoint's options were combined into them
CombineOptions(idp, endpoint) ==
  LET cur == IF idp = None THEN AllFalse ELSE Get(idp)
  IN  Some([ accessToken  |-> cur.accessToken \/ OrFalse(endpoint.accessToken),
             idToken      |-> cur.idToken \/ OrFalse(endpoint.idToken),
             refreshToken |-> cur.refreshToken \/ OrFalse(endpoint.refreshToken) ])

\* wantBackend.resourceOptions.identityPlatform?.<flag> || false
MergedFlag(idp, flag) == idp # None /\ Get(idp)[flag]

\* CopyOptions with the idToken line reading the merged accessToken
CopyOptions_Pasted(endpoint, idp) ==
  [ endpoint EXCEPT !.accessToken  = Some(MergedFlag(idp, "accessToken")),
                    !.idToken      = Some(MergedFlag(idp, "accessToken")),
                    !.refreshToken = Some(MergedFlag(idp, "refreshToken")) ]

\* the endpoint after the merged options were copied to it
CopyOptions(endpoint, idp) ==
  [ endpoint EXCEPT !.accessToken  = Some(MergedFlag(idp, "accessToken")),
                    !.idToken      = Some(MergedFlag(idp, "idToken")),
                    !.refreshToken = Some(MergedFlag(idp, "refreshToken")) ]

AllEnsured == blockingEndpoints(plan) \subseteq ensured

\* ensureAuthBlockingTriggerIsValid(plan[i], wantBackend)
Ensure(i) ==
  /\ isBlockingTriggered(plan[i])
  /\ IF HasDuplicate(plan[i], plan)
       THEN /\ result' = "DuplicateTrigger"
            /\ UNCHANGED << plan, merged, ensured >>
       ELSE /\ merged' = CombineOptions(merged, plan[i])
            /\ ensured' = ensured \cup {i}
            /\ result' = "ok"
            /\ UNCHANGED plan
  /\ UNCHANGED << copiedEarly, copied, remoteVars, raceVars >>

\* copyIdentityPlatformOptionsToEndpoint(plan[i], wantBackend)
Copy(i) ==
  /\ isBlockingTriggered(plan[i])
  /\ plan' = [plan EXCEPT ![i] = CopyOptions(plan[i], merged)]
  /\ IF AllEnsured
       THEN copied' = copied \cup {i} /\ UNCHANGED copiedEarly
       ELSE copiedEarly' = copiedEarly \cup {i} /\ UNCHANGED copied
  /\ result' = "ok"
  /\ UNCHANGED << merged, ensured, remoteVars, raceVars >>

----------------------------------------------------------------------------
(* The remote blocking functions config *)

\* the object {}
EmptyTrigger == [functionUri |-> None]

\* the object {functionUri: uri}, for an optional uri
TriggerOf(uri) == [functionUri |-> uri]

\* blockingConfig.triggers?.beforeCreate and blockingConfig.triggers?.beforeSignIn
TriggerSlot(blockingConfig, name) ==
  IF blockingConfig.triggers = None THEN None
  ELSE Get(blockingConfig.triggers)[name]

\* blockingConfig.triggers?.<name>?.functionUri
SlotUri(blockingConfig, name) ==
  IF TriggerSlot(blockingConfig, name) = None THEN None
  ELSE Get(TriggerSlot(blockingConfig, name)).functionUri

\* !uri for an optional string
Falsy(uri) == uri = None \/ Get(uri) = ""

\* the forwardInboundCredentials of a fresh registration
CredentialsOf(endpoint) ==
  [ idToken      |-> ToString(OrFalse(endpoint.idToken)),
    accessToken  |-> ToString(OrFalse(endpoint.accessToken)),
    refreshToken |-> ToString(OrFalse(endpoint.refreshToken)) ]

\* InvalidTriggerType of a dispatch whose second branch is a plain else
InvalidTriggerType_Never(endpoint) == FALSE

\* neither branch of the dispatch is taken: the call throws
InvalidTriggerType(endpoint) ==
  ~IsBeforeCreate(endpoint.eventType) /\ ~IsBeforeSignIn(endpoint.eventType)

\* the slot a call is about, and the other one
SlotName(endpoint) ==
  IF IsBeforeCreate(endpoint.eventType) THEN "beforeCreate" ELSE "beforeSignIn"

OtherSlotName(endpoint) ==
  IF IsBeforeCreate(endpoint.eventType) THEN "beforeSignIn" ELSE "beforeCreate"

\* blockingConfig.triggers as register assigns it
RegisterTriggers(blockingConfig, endpoint) ==
  IF IsBeforeCreate(endpoint.eventType)
    THEN [ beforeCreate |-> Some(TriggerOf(endpoint.uri)),
           beforeSignIn |-> TriggerSlot(blockingConfig, "beforeSignIn") ]
    ELSE [ beforeCreate |-> TriggerSlot(blockingConfig, "beforeCreate"),
           beforeSignIn |-> Some(TriggerOf(endpoint.uri)) ]

\* RegisterConfig overwriting the credentials on updates too
RegisterConfig_AlwaysOverwrites(blockingConfig, endpoint, update) ==
  [ triggers |-> Some(RegisterTriggers(blockingConfig, endpoint)),
    forwardInboundCredentials |-> Some(CredentialsOf(endpoint)) ]

\* the config register passes to setBlockingFunctionsConfig
RegisterConfig(blockingConfig, endpoint, update) ==
  [ triggers |-> Some(RegisterTriggers(blockingConfig, endpoint)),
    forwardInboundCredentials |->
      IF ~update THEN Some(CredentialsOf(endpoint))
      ELSE blockingConfig.forwardInboundCredentials ]

\* UnregisterReturns without the comparison of the URIs
UnregisterReturns_NoCompare(blockingConfig, endpoint) ==
  Falsy(SlotUri(blockingConfig, SlotName(endpoint)))

\* the early return of unregister: the slot has no URI, or another one
UnregisterReturns(blockingConfig, endpoint) ==
  \/ Falsy(SlotUri(blockingConfig, SlotName(endpoint)))
  \/ endpoint.uri # SlotUri(blockingConfig, SlotName(endpoint))

\* UnregisterTriggers writing both slots empty
UnregisterTriggers_ClearsBoth(blockingConfig, endpoint) ==
  [ beforeCreate |-> Some(EmptyTrigger), beforeSignIn |-> Some(EmptyTrigger) ]

\* blockingConfig.triggers as unregister assigns it
UnregisterTriggers(blockingConfig, endpoint) ==
  IF IsBeforeCreate(endpoint.eventType)
    THEN [ beforeCreate |-> Some(EmptyTrigger),
           beforeSignIn |-> TriggerSlot(blockingConfig, "beforeSignIn") ]
    ELSE [ beforeCreate |-> TriggerSlot(blockingConfig, "beforeCreate"),
           beforeSignIn |-> Some(EmptyTrigger) ]

\* the config unregister passes to setBlockingFunctionsConfig
UnregisterConfig(blockingConfig, endpoint) ==
  [ blockingConfig EXCEPT !.triggers = Some(UnregisterTriggers(blockingConfig, endpoint)) ]

\* registerAuthBlockingTriggerToIdentityPlatform(endpoint, update), run from
\* its read to its write with no other call in between
Register(endpoint, update) ==
  /\ call' = [op |-> "register", endpoint |-> endpoint, update |-> update]
  /\ before' = remote
  /\ roundTrip' = None
  /\ IF InvalidTriggerType(endpoint)
       THEN /\ result' = "InvalidTriggerType"
            /\ wrote' = FALSE
            /\ UNCHANGED remote
       ELSE /\ remote' = RegisterConfig(remote, endpoint, update)
            /\ wrote' = TRUE
            /\ result' = "ok"
  /\ UNCHANGED << planVars, raceVars >>

\* unregisterAuthBlockingTriggerFromIdentityPlatform(endpoint), run from its
\* read to its write with no other call in between
Unregister(endpoint) ==
  /\ call' = [op |-> "unregister", endpoint |-> endpoint, update |-> FALSE]
  /\ before' = remote
  /\ roundTrip' =
       IF call.op = "register" /\ result = "ok" /\ call.endpoint = endpoint
         THEN Some(TriggerSlot(before, OtherSlotName(endpoint)))
         ELSE None
  /\ IF InvalidTriggerType(endpoint)
       THEN /\ result' = "InvalidTriggerType"
            /\ wrote' = FALSE
            /\ UNCHANGED remote
       ELSE IF UnregisterReturns(remote, endpoint)
         THEN /\ result' = "ok"
              /\ wrote' = FALSE
              /\ UNCHANGED remote
         ELSE /\ remote' = UnregisterConfig(remote, endpoint)
              /\ wrote' = TRUE
              /\ result' = "ok"
  /\ UNCHANGED << planVars, raceVars >>

----------------------------------------------------------------------------
(* Two concurrent calls: each is a read of the remote config and, later, at
   most one write of the whole config computed from what was read *)

Callers == { 1, 2 }

\* await identityPlatform.getBlockingFunctionsConfig(endpoint.project)
GetStep(p) ==
  /\ inflight[p].pc = "start"
  /\ inflight' = [inflight EXCEPT ![p].pc = "read",
                                  ![p].blockingConfig = remote,
                                  ![p].gets = @ + 1]
  /\ overlap' = (overlap \/ \E q \in Callers \ {p} : inflight[q].pc = "read")
  /\ UNCHANGED << planVars, result, remoteVars, initial >>

\* SetStep for an unregister call that has no early return
SetStep_NoEarlyReturn(p) ==
  LET c == inflight[p].call
      blockingConfig == inflight[p].blockingConfig
  IN  /\ inflight[p].pc = "read"
      /\ IF InvalidTriggerType(c.endpoint)
           THEN /\ inflight' = [inflight EXCEPT ![p].pc = "done",
                                                ![p].result = "InvalidTriggerType"]
                /\ UNCHANGED remote
           ELSE /\ remote' = IF c.op = "register"
                               THEN RegisterConfig(blockingConfig, c.endpoint, c.update)
                               ELSE UnregisterConfig(blockingConfig, c.endpoint)
                /\ inflight' = [inflight EXCEPT ![p].pc = "done",
                                                ![p].result = "ok",
                                                ![p].sets = @ + 1]
      /\ UNCHANGED << planVars, result, call, before, wrote, roundTrip,
                      initial, overlap >>

\* the rest of the call, from the dispatch on the event type to
\* await identityPlatform.setBlockingFunctionsConfig(endpoint.project, blockingConfig)
SetStep(p) ==
  LET c == inflight[p].call
      blockingConfig == inflight[p].blockingConfig
  IN  /\ inflight[p].pc = "read"
      /\ IF InvalidTriggerType(c.endpoint)
           THEN /\ inflight' = [inflight EXCEPT ![p].pc = "done",
                                                ![p].result = "InvalidTriggerType"]
                /\ UNCHANGED remote
           ELSE IF c.op = "unregister" /\ UnregisterReturns(blockingConfig, c.endpoint)
             THEN /\ inflight' = [inflight EXCEPT ![p].pc = "done",
                                                  ![p].result = "ok"]
                  /\ UNCHANGED remote
             ELSE /\ remote' = IF c.op = "register"
                                 THEN RegisterConfig(blockingConfig, c.endpoint, c.update)
                                 ELSE UnregisterConfig(blockingConfig, c.endpoint)
                  /\ inflight' = [inflight EXCEPT ![p].pc = "done",
                                                  ![p].result = "ok",
                                                  ![p].sets = @ + 1]
      /\ UNCHANGED << planVars, result, call, before, wrote, roundTrip,
                      initial, overlap >>

----------------------------------------------------------------------------
(* Specifications *)

NoCall == [op |-> "none", endpoint |-> OtherEndpoint("", None), update |-> FALSE]

EmptyConfig == [triggers |-> None, forwardInboundCredentials |-> None]

\* the endpoints the i-th place of a plan may hold
PlanEndpoints(i) ==
  { OtherEndpoint("fnA", UriOf(i)) } \cup
  { BlockingEndpoint(x[1], UriOf(i), x[2], x[3]) :
      x \in Ids \X AuthBlockingEvents \X RequestedOptions }

\* a plan as the planning stage builds it: no merged options yet
InitPlan ==
  /\ plan \in { p \in [Indices -> UNION { PlanEndpoints(i) : i \in Indices }] :
                  \A i \in Indices : p[i] \in PlanEndpoints(i) }
  /\ merged = None
  /\ ensured = {}
  /\ copiedEarly = {}
  /\ copied = {}
  /\ result = "none"
  /\ remote = EmptyConfig
  /\ call = NoCall
  /\ before = EmptyConfig
  /\ wrote = FALSE
  /\ roundTrip = None
  /\ inflight = << >>
  /\ initial = EmptyConfig
  /\ overlap = FALSE

NextPlan ==
  \/ \E i \in Indices : Ensure(i)
  \/ \E i \in Indices : Copy(i)

SpecPlan == InitPlan /\ [][NextPlan]_vars

\* the validation of the plan alone
NextValidate == \E i \in Indices : Ensure(i)

SpecValidate == InitPlan /\ [][NextValidate]_vars

\* the values a trigger slot of the remote config may hold
RemoteSlots ==
  { None, Some(EmptyTrigger) } \cup
  { Some(TriggerOf(Some(u))) : u \in { "https://a", "https://b" } }

RemoteTriggers ==
  { None } \cup
  { Some([beforeCreate |-> x[1], beforeSignIn |-> x[2]]) :
      x \in RemoteSlots \X RemoteSlots }

RemoteCredentials ==
  { None,
    Some([idToken |-> "false", accessToken |-> "false", refreshToken |-> "false"]),
    Some([idToken |-> "true", accessToken |-> "false", refreshToken |-> "true"]) }

RemoteConfigs ==
  { [triggers |-> x[1], forwardInboundCredentials |-> x[2]] :
      x \in RemoteTriggers \X RemoteCredentials }

\* the endpoints register is called with: their URI is set
RegisterEndpoints ==
  { BlockingEndpoint("fnA", Some(x[1]), x[2], x[3]) :
      x \in { "https://a", "https://b" } \X EventTypes \X RequestedOptions }

\* the endpoints unregister is called with: the URI may be missing
UnregisterEndpoints ==
  RegisterEndpoints \cup
  { BlockingEndpoint("fnA", None, x[1], x[2]) : x \in EventTypes \X RequestedOptions }

InitRemote ==
  /\ plan = << >>
  /\ merged = None
  /\ ensured = {}
  /\ copiedEarly = {}
  /\ copied = {}
  /\ result = "none"
  /\ remote \in RemoteConfigs
  /\ call = NoCall
  /\ before = remote
  /\ wrote = FALSE
  /\ roundTrip = None
  /\ inflight = << >>
  /\ initial = EmptyConfig
  /\ overlap = FALSE

NextRemote ==
  \/ \E endpoint \in RegisterEndpoints, update \in BOOLEAN : Register(endpoint, update)
  \/ \E endpoint \in UnregisterEndpoints : Unregister(endpoint)

SpecRemote == InitRemote /\ [][NextRemote]_vars

\* the options of the endpoints of the calls that do not use them
SomeOptions == [accessToken |-> Some(TRUE), idToken |-> Some(FALSE), refreshToken |-> None]

\* the endpoints of a deployment of blocking functions only
DeployEndpoints(i) ==
  { BlockingEndpoint(x[1], UriOf(i), x[2], SomeOptions) :
      x \in Ids \X AuthBlockingEvents }

\* a deployment: the endpoints of the plan are validated and registered
InitDeploy ==
  /\ plan \in { p \in [Indices -> UNION { DeployEndpoints(i) : i \in Indices }] :
                  \A i \in Indices : p[i] \in DeployEndpoints(i) }
  /\ merged = None
  /\ ensured = {}
  /\ copiedEarly = {}
  /\ copied = {}
  /\ result = "none"
  /\ remote = EmptyConfig
  /\ call = NoCall
  /\ before = EmptyConfig
  /\ wrote = FALSE
  /\ roundTrip = None
  /\ inflight = << >>
  /\ initial = EmptyConfig
  /\ overlap = FALSE

NextDeploy ==
  \/ \E i \in Indices : Ensure(i)
  \/ \E i \in Indices, update \in BOOLEAN : Register(plan[i], update)

SpecDeploy == InitDeploy /\ [][NextDeploy]_vars

\* the calls the p-th caller may make, each about its own function: the
\* endpoint's options vary where the call reads them, in a fresh registration
RaceCalls(p) ==
  { [op |-> x[1], endpoint |-> BlockingEndpoint("fnA", UriOf(p), x[2], x[3]),
     update |-> x[4]] :
      x \in ({ "register" } \X EventTypes \X RequestedOptions \X { FALSE }) \cup
            ({ "register" } \X EventTypes \X { SomeOptions } \X { TRUE }) \cup
            ({ "unregister" } \X EventTypes \X { SomeOptions } \X { FALSE }) }

InitRace ==
  /\ plan = << >>
  /\ merged = None
  /\ ensured = {}
  /\ copiedEarly = {}
  /\ copied = {}
  /\ result = "none"
  /\ remote \in RemoteConfigs
  /\ call = NoCall
  /\ before = EmptyConfig
  /\ wrote = FALSE
  /\ roundTrip = None
  /\ \E c1 \in RaceCalls(1), c2 \in RaceCalls(2) :
       inflight = [p \in Callers |->
                     [ call |-> IF p = 1 THEN c1 ELSE c2, pc |-> "start",
                       blockingConfig |-> EmptyConfig, result |-> "none",
                       gets |-> 0, sets |-> 0 ]]
  /\ initial = remote
  /\ overlap = FALSE

NextRace ==
  \/ \E p \in Callers : GetStep(p)
  \/ \E p \in Callers : SetStep(p)

SpecRace == InitRace /\ [][NextRace]_vars

----------------------------------------------------------------------------
(* Properties *)

Flags == { "accessToken", "idToken", "refreshToken" }

BeforeCreateFamily == { v1_BEFORE_CREATE_EVENT, v2_BEFORE_CREATE_EVENT }

BeforeSignInFamily == { v1_BEFORE_SIGN_IN_EVENT, v2_BEFORE_SIGN_IN_EVENT }

\* the slot of an event type's family, and the other slot
FamilySlot(eventType) ==
  IF eventType \in BeforeCreateFamily THEN "beforeCreate" ELSE "beforeSignIn"

FamilyOtherSlot(eventType) ==
  IF eventType \in BeforeCreateFamily THEN "beforeSignIn" ELSE "beforeCreate"

\* the slot holds a function URI
HoldsUri(config, name) ==
  /\ config.triggers # {}
  /\ \E t \in config.triggers :
       /\ t[name] # {}
       /\ \E o \in t[name] : o.functionUri # {} /\ o.functionUri # {""}

\* the plan holds a blocking endpoint other than the i-th, of its event type
\* and of another id
AnotherOfSameEventType(i) ==
  \E j \in Indices \ {i} :
    /\ plan[j].blocking
    /\ plan[j].eventType = plan[i].eventType
    /\ plan[j].id # plan[i].id

\* C1: ensureAuthBlockingTriggerIsValid(endpoint, plan) fails with the
\* duplicate trigger error exactly when the plan holds another blocking
\* endpoint of the endpoint's event type and of a different id; otherwise the
\* call returns.
C1_DuplicateTrigger ==
  [][ \A i \in Indices :
        Ensure(i) =>
          /\ AnotherOfSameEventType(i) => result' = "DuplicateTrigger"
          /\ ~AnotherOfSameEventType(i) => result' = "ok" /\ i \in ensured' ]_vars

C1_Witness ==
  /\ result = "DuplicateTrigger"
  /\ \E i \in Indices : plan[i].blocking /\ AnotherOfSameEventType(i)

\* C2: the merged options being absent at first, once ensure has returned
\* for every blocking endpoint of the plan, no copy made yet, every merged
\* flag is the OR of that flag over the blocking endpoints, a missing flag
\* counting as false.
C2_MergedIsOr ==
  ( /\ \A j \in Indices : plan[j].blocking => j \in ensured
    /\ copiedEarly = {} /\ copied = {} )
  => \A f \in Flags :
       (merged # {} /\ \A m \in merged : m[f])
         <=> (\E j \in Indices : plan[j].blocking /\ plan[j][f] = {TRUE})

C2_Witness ==
  /\ copiedEarly = {} /\ copied = {}
  /\ Cardinality(ensured) >= 2
  /\ \A j \in Indices : plan[j].blocking => j \in ensured
  /\ \E j \in ensured, m \in merged :
       m.accessToken /\ plan[j].accessToken # {TRUE} /\ ~m.refreshToken

\* C8: once ensure has returned for every blocking endpoint and copy has
\* then been called for every blocking endpoint, every blocking endpoint
\* carries the plan's merged flags.
C8_CopiedIsMerged ==
  ( /\ \A j \in Indices : plan[j].blocking => j \in ensured
    /\ \A j \in Indices : plan[j].blocking => j \in copied )
  => \A j \in Indices : plan[j].blocking =>
       \A f \in Flags : plan[j][f] = { merged # {} /\ \A m \in merged : m[f] }

C8_Witness ==
  /\ Cardinality(copied) >= 2
  /\ \A j \in Indices : plan[j].blocking => j \in ensured /\ j \in copied
  /\ \E m \in merged : m.idToken /\ ~m.accessToken

\* C3: over calls that run one after the other, a slot that holds a URI loses
\* it only by an unregister call of the slot's family whose endpoint has that
\* URI; an unregister call whose slot holds no URI or another URI writes
\* nothing and leaves the remote config as it was.
C3_CompareAndClear ==
  /\ \A name \in { "beforeCreate", "beforeSignIn" } :
       (HoldsUri(before, name) /\ ~HoldsUri(remote, name)) =>
         /\ call.op = "unregister"
         /\ call.endpoint.eventType \in AuthBlockingEvents
         /\ FamilySlot(call.endpoint.eventType) = name
         /\ call.endpoint.uri = SlotUri(before, name)
  /\ ( /\ call.op = "unregister"
       /\ call.endpoint.eventType \in AuthBlockingEvents
       /\ \/ ~HoldsUri(before, FamilySlot(call.endpoint.eventType))
          \/ call.endpoint.uri # SlotUri(before, FamilySlot(call.endpoint.eventType)) )
     => ~wrote /\ remote = before /\ result = "ok"

C3_Witness ==
  /\ call.op = "unregister"
  /\ call.endpoint.eventType \in AuthBlockingEvents
  /\ call.endpoint.uri # {}
  /\ HoldsUri(before, FamilySlot(call.endpoint.eventType))
  /\ call.endpoint.uri # SlotUri(before, FamilySlot(call.endpoint.eventType))
  /\ ~wrote /\ remote = before

\* C4: register of an endpoint of either family followed by unregister of the
\* same endpoint leaves the endpoint's slot without a function URI and the
\* other slot as it was before the register call.
C4_RegisterThenUnregister ==
  (call.op = "unregister" /\ roundTrip # {}) =>
    /\ result = "ok" /\ wrote
    /\ ~HoldsUri(remote, FamilySlot(call.endpoint.eventType))
    /\ TriggerSlot(remote, FamilySlot(call.endpoint.eventType)) = {EmptyTrigger}
    /\ {TriggerSlot(remote, FamilyOtherSlot(call.endpoint.eventType))} = roundTrip

C4_Witness ==
  /\ call.op = "unregister" /\ roundTrip # {} /\ wrote
  /\ HoldsUri(remote, FamilyOtherSlot(call.endpoint.eventType))
  /\ ~HoldsUri(remote, FamilySlot(call.endpoint.eventType))

\* the string a requested flag is written as
Rendered(flag) == IF flag = {TRUE} THEN "true" ELSE "false"

\* C5: a register call that is an update writes back the forwarding flags it
\* read; a fresh registration writes the endpoint's three flags as the
\* strings "true" and "false", a missing flag as "false", whatever the flags
\* were before.
C5_CredentialsOnlyWhenFresh ==
  (call.op = "register" /\ result = "ok") =>
    IF call.update
      THEN remote.forwardInboundCredentials = before.forwardInboundCredentials
      ELSE remote.forwardInboundCredentials =
             { [ idToken      |-> Rendered(call.endpoint.idToken),
                 accessToken  |-> Rendered(call.endpoint.accessToken),
                 refreshToken |-> Rendered(call.endpoint.refreshToken) ] }

C5_Witness ==
  /\ call.op = "register" /\ result = "ok" /\ ~call.update
  /\ before.forwardInboundCredentials # {}
  /\ remote.forwardInboundCredentials # before.forwardInboundCredentials
  /\ call.endpoint.refreshToken = {}

\* C6: a register call for a before-create endpoint, v1 or v2, writes the
\* endpoint's URI to the beforeCreate slot and the beforeSignIn slot as read,
\* and symmetrically for before-sign-in; no register call changes the slot of
\* the other family.
C6_RegisterDispatch ==
  call.op = "register" =>
    /\ call.endpoint.eventType \in BeforeCreateFamily =>
         /\ result = "ok" /\ wrote
         /\ TriggerSlot(remote, "beforeCreate") = {[functionUri |-> call.endpoint.uri]}
         /\ TriggerSlot(remote, "beforeSignIn") = TriggerSlot(before, "beforeSignIn")
    /\ call.endpoint.eventType \in BeforeSignInFamily =>
         /\ result = "ok" /\ wrote
         /\ TriggerSlot(remote, "beforeSignIn") = {[functionUri |-> call.endpoint.uri]}
         /\ TriggerSlot(remote, "beforeCreate") = TriggerSlot(before, "beforeCreate")
    /\ call.endpoint.eventType \notin AuthBlockingEvents =>
         /\ TriggerSlot(remote, "beforeCreate") = TriggerSlot(before, "beforeCreate")
         /\ TriggerSlot(remote, "beforeSignIn") = TriggerSlot(before, "beforeSignIn")

C6_Witness ==
  /\ call.op = "register" /\ result = "ok"
  /\ call.endpoint.eventType = v2_BEFORE_CREATE_EVENT
  /\ HoldsUri(before, "beforeSignIn")
  /\ SlotUri(remote, "beforeCreate") # SlotUri(before, "beforeCreate")

\* C7: register and unregister called with an endpoint of neither family fail
\* with the invalid trigger type error, write nothing and leave the remote
\* config as it was.
C7_InvalidTriggerType ==
  (call.op \in { "register", "unregister" }
     /\ call.endpoint.eventType \notin BeforeCreateFamily \cup BeforeSignInFamily)
  => result = "InvalidTriggerType" /\ ~wrote /\ remote = before

C7_Witness ==
  /\ call.op = "unregister" /\ result = "InvalidTriggerType"
  /\ HoldsUri(remote, "beforeCreate") /\ HoldsUri(remote, "beforeSignIn")

\* the remote config after a call ran from its read to its write with no
\* other call in between
SerialEffect(config, c) ==
  IF c.endpoint.eventType \notin AuthBlockingEvents THEN config
  ELSE IF c.op = "register" THEN RegisterConfig(config, c.endpoint, c.update)
  ELSE IF UnregisterReturns(config, c.endpoint) THEN config
  ELSE UnregisterConfig(config, c.endpoint)

\* the two serial orders of the concurrent calls
SerialResults ==
  { SerialEffect(SerialEffect(initial, inflight[1].call), inflight[2].call),
    SerialEffect(SerialEffect(initial, inflight[2].call), inflight[1].call) }

BothDone == \A p \in Callers : inflight[p].pc = "done"

\* C9: each register/unregister call reads the remote config once and then
\* writes it at most once; when the steps of two calls do not interleave the
\* final config is that of a serial order, and it is that of neither serial
\* order in some run where they interleave.
C9_ReadThenWriteRaces ==
  /\ \A p \in Callers :
       /\ inflight[p].gets = (IF inflight[p].pc = "start" THEN 0 ELSE 1)
       /\ inflight[p].sets <= inflight[p].gets
       /\ inflight[p].pc # "done" => inflight[p].sets = 0
  /\ (BothDone /\ ~overlap) => remote \in SerialResults

\* both calls register, one in each family, on a config without triggers,
\* and one of the two URIs is lost
C9_Witness ==
  /\ BothDone /\ overlap
  /\ remote \notin SerialResults
  /\ initial.triggers = {}
  /\ inflight[1].call.op = "register" /\ inflight[1].call.endpoint.eventType \in BeforeCreateFamily
  /\ inflight[2].call.op = "register" /\ inflight[2].call.endpoint.eventType \in BeforeSignInFamily
  /\ inflight[1].sets = 1 /\ inflight[2].sets = 1
  /\ HoldsUri(remote, "beforeCreate") # HoldsUri(remote, "beforeSignIn")

\* an unregister call that read its own URI in the slot clears the slot after
\* another call wrote a different URI to it
C9_StaleUnregisterReached ==
  /\ BothDone /\ overlap
  /\ remote \notin SerialResults
  /\ inflight[1].call.op = "unregister" /\ inflight[1].sets = 1
  /\ inflight[2].call.op = "register" /\ inflight[2].sets = 1
  /\ FamilySlot(inflight[1].call.endpoint.eventType)
       = FamilySlot(inflight[2].call.endpoint.eventType)
  /\ ~HoldsUri(remote, FamilySlot(inflight[1].call.endpoint.eventType))

\* the i-th and j-th endpoints of the plan are a v1 and a v2 endpoint of one
\* family, of different ids
VersionsOfOneFamily(i, j) ==
  /\ plan[i].blocking /\ plan[j].blocking
  /\ plan[i].id # plan[j].id
  /\ plan[i].eventType # plan[j].eventType
  /\ \/ { plan[i].eventType, plan[j].eventType } = BeforeCreateFamily
     \/ { plan[i].eventType, plan[j].eventType } = BeforeSignInFamily

\* C10: validation compares the names of the event types: it fails only for
\* a plan with two blocking endpoints of one name and different ids, so a v1
\* and a v2 endpoint of one family both pass; register writes both to the
\* one slot of the family, which after the second registration holds the URI
\* of the second endpoint and not that of the first.
C10_FamilySlotOverwritten ==
  /\ result = "DuplicateTrigger" =>
       \E i \in Indices, j \in Indices :
         /\ plan[i].blocking /\ plan[j].blocking
         /\ plan[i].eventType = plan[j].eventType
         /\ plan[i].id # plan[j].id
  /\ \A i \in Indices, j \in Indices :
       ( /\ VersionsOfOneFamily(i, j)
         /\ call.op = "register" /\ call.endpoint = plan[j]
         /\ SlotUri(before, FamilySlot(plan[i].eventType)) = plan[i].uri )
       => /\ SlotUri(remote, FamilySlot(plan[i].eventType)) = plan[j].uri
          /\ SlotUri(remote, FamilySlot(plan[i].eventType)) # plan[i].uri

C10_Witness ==
  \E i \in Indices, j \in Indices :
    /\ VersionsOfOneFamily(i, j)
    /\ i \in ensured /\ j \in ensured
    /\ call.op = "register" /\ call.endpoint = plan[j]
    /\ SlotUri(before, FamilySlot(plan[i].eventType)) = plan[i].uri
    /\ SlotUri(remote, FamilySlot(plan[i].eventType)) = plan[j].uri

====
